---- MODULE Spec2Model ----
(***************************************************************************)
(* Model of palate_ai_ml_project/agents/safety_agent.py: the SafetyAgent   *)
(* (XGBoost classifier + hard rules), and of the rule-only SafetyAgent,    *)
(* the RecommendationAgent and the MenuOCRAgent of palate_ai_project, and  *)
(* of the sanitization and safety loop of palate_ai_ml_project/app.py.     *)
(*                                                                         *)
(* Strings are sequences of tokens.  A token is a maximal run of           *)
(* characters that the code never looks inside ("gluten", "celiac"), the   *)
(* separator "_" or the blank " ".  'celiac_disease' is therefore the      *)
(* three-token string <<"celiac", "_", "disease">>.  The float NaN that    *)
(* pandas puts in an empty CSV cell is the reserved value NaN.             *)
(* Probabilities are integer percents (0.7 is 70).                         *)
(***************************************************************************)
EXTENDS Integers, Sequences, FiniteSets, TLC

VARIABLES trained, fallback_active, encoders, model,
          op, arg_user, arg_item, arg_restaurant, verdict, prev_verdict, train_ret, tpc, tdata,
          safety_result, menus, top_n, recommended_items, extracted_text, ocr_results,
          safe_list, blocked_list

\* the agents of palate_ai_project and of the two app.py scripts, and what their
\* callers hold
project_vars == <<safety_result, menus, top_n, recommended_items, extracted_text, ocr_results,
                  safe_list, blocked_list>>

vars == <<trained, fallback_active, encoders, model,
          op, arg_user, arg_item, arg_restaurant, verdict, prev_verdict, train_ret, tpc, tdata,
          project_vars>>

-----------------------------------------------------------------------------
(* Bounds *)
MaxTrainUsers == 2
MaxTrainItems == 3

-----------------------------------------------------------------------------
(* String values *)
NaN == <<"<NaN>">>
EmptyStr == <<>>
BlankStr == <<" ">>
NoneStr == <<"none">>
Sep == "_"

IsNa(x) == x = NaN

RECURSIVE LStrip(_)
LStrip(s) == IF s # <<>> /\ Head(s) = " " THEN LStrip(Tail(s)) ELSE s

RECURSIVE RStrip(_)
RStrip(s) == IF s # <<>> /\ s[Len(s)] = " " THEN RStrip(SubSeq(s, 1, Len(s) - 1)) ELSE s

\* str.strip()
Strip(s) == RStrip(LStrip(s))

\* str.split('_') on a non-empty string: the list of the segments between separators
RECURSIVE SplitFrom(_, _, _)
SplitFrom(s, i, cur) ==
    IF i > Len(s) THEN <<cur>>
    ELSE IF s[i] = Sep THEN <<cur>> \o SplitFrom(s, i + 1, <<>>)
    ELSE SplitFrom(s, i + 1, Append(cur, s[i]))

Split(s) == SplitFrom(s, 1, <<>>)

\* SafetyAgent._safe_split
safe_split(x) ==
    IF IsNa(x) \/ Strip(x) = EmptyStr THEN <<>>
    ELSE IF x # NoneStr THEN Split(x) ELSE <<>>

Range(f) == {f[i] : i \in DOMAIN f}

\* the literals the code searches for
Lit_celiac_disease == <<"celiac", "_", "disease">>
Lit_gluten == <<"gluten">>
Lit_shellfish == <<"shellfish">>

\* str.lower() on the tokens of the ingredient text
Capitalised ==
    [Seafood |-> "seafood", Shrimp |-> "shrimp", Allergen |-> "allergen", Ingredient |-> "ingredient",
     Contains |-> "contains", Shellfish |-> "shellfish", Gluten |-> "gluten", Dairy |-> "dairy",
     Cream |-> "cream", Burger |-> "burger", Fresh |-> "fresh", Pasta |-> "pasta"]
LowerTok(t) == IF t \in DOMAIN Capitalised THEN Capitalised[t] ELSE t
Lower(s) == [i \in DOMAIN s |-> LowerTok(s[i])]

\* 'seafood' in text
ContainsSeafood(text) == \E i \in DOMAIN text : text[i] = "seafood"

-----------------------------------------------------------------------------
(* Records handed to the agent.  A tag list is written in the data files as  *)
(* its tags joined by '_' ('none' for no tag).                               *)
Tag_shellfish == <<"shellfish">>
Tag_gluten == <<"gluten">>
Tag_celiac_disease == <<"celiac", "_", "disease">>

\* the join of a tag sequence with '_'
RECURSIVE Join(_)
Join(tags) ==
    IF tags = <<>> THEN <<>>
    ELSE IF Len(tags) = 1 THEN tags[1]
    ELSE tags[1] \o <<Sep>> \o Join(Tail(tags))

\* the tags in the order the data files write them
TagOrder == <<Tag_celiac_disease, Tag_gluten, Tag_shellfish>>
TagSeq(S) == SelectSeq(TagOrder, LAMBDA t : t \in S)
EncodeTags(S) == IF S = {} THEN NoneStr ELSE Join(TagSeq(S))

AllergenTags == {Tag_gluten, Tag_shellfish}
ConditionTags == {Tag_celiac_disease}

\* allergies column of user_profiles.csv
AllergyValues == {NaN} \cup {EncodeTags(S) : S \in SUBSET AllergenTags}

\* health_conditions column of user_profiles.csv
ConditionValues == {EncodeTags(S) : S \in SUBSET ConditionTags}

\* allergens column of menu.csv (one tag at most in the items checked)
AllergenValues == {NaN, EmptyStr, BlankStr} \cup {EncodeTags(S) : S \in {{}, {Tag_gluten}, {Tag_shellfish}}}

\* ingredients_clean column of menu.csv
IngredientValues == {<<"rice">>, <<"fried", " ", "shrimp">>, <<"Seafood", " ", "soup">>}

\* budget_range_myr: the two integers around '-', or NaN
BudgetOk == <<30, 55>>

Users == [allergies : AllergyValues, health_conditions : ConditionValues, budget_range_myr : {BudgetOk}]
Items == [allergens : AllergenValues, ingredients_clean : IngredientValues,
          safety_status : {"VERIFIED"}, price_myr : {40}, restaurant_id : {"R1"}]
Restaurants == [restaurant_id : {"R1"}, cuisine_type : {"malay", "western"}]

\* what the columns mean: the tag sets they encode
TagsOf(raw, Universe) == UNION {S \in SUBSET Universe : S # {} /\ raw = EncodeTags(S)}
UserAllergies(user) == TagsOf(user.allergies, AllergenTags)
ItemAllergens(item) == TagsOf(item.allergens, AllergenTags)
UserConditions(user) == TagsOf(user.health_conditions, ConditionTags)

-----------------------------------------------------------------------------
(* Return values of check_safety *)
None == <<>>
Some(v) == <<v>>

Verdict(safe, reason, risk_level, model_confidence, encoded, model_called) ==
    [kind |-> "return", safe |-> safe, reason |-> reason, risk_level |-> risk_level,
     model_confidence |-> model_confidence, encoded |-> encoded, model_called |-> model_called]

\* an exception that leaves the call
Raised(exc, encoded, model_called) ==
    [kind |-> "raise", safe |-> FALSE, reason |-> exc, risk_level |-> "",
     model_confidence |-> None, encoded |-> encoded, model_called |-> model_called]

NoVerdict ==
    [kind |-> "none", safe |-> FALSE, reason |-> "", risk_level |-> "",
     model_confidence |-> None, encoded |-> FALSE, model_called |-> FALSE]

\* pd.isna(menu_item['allergens']) or menu_item['allergens'].strip() == ''
allergens_missing(item) == IsNa(item.allergens) \/ Strip(item.allergens) = EmptyStr

\* set(user_alls_list).intersection(set(menu_alls_list))
direct_match(user, item) ==
    Range(safe_split(user.allergies)) \cap Range(safe_split(item.allergens)) # {}

\* 'celiac_disease' in self._safe_split(user_profile['health_conditions']) and 'gluten' in menu_alls_list
celiac_gluten(user, item) ==
    /\ Lit_celiac_disease \in Range(safe_split(user.health_conditions))
    /\ Lit_gluten \in Range(safe_split(item.allergens))

\* 'shellfish' in user_alls_list and ('shellfish' in menu_alls_list or 'seafood' in menu_ingredients_lower)
shellfish_seafood(user, item) ==
    /\ Lit_shellfish \in Range(safe_split(user.allergies))
    /\ \/ Lit_shellfish \in Range(safe_split(item.allergens))
       \/ ContainsSeafood(Lower(item.ingredients_clean))

\* check_safety, "if not self.trained or self.fallback_active:" branch
fallback_branch(user, item) ==
    IF allergens_missing(item)
    THEN Verdict(FALSE, "MISSING_ALLERGEN_INFO_FALLBACK (Critical Safety Rule)", "HIGH", None, FALSE, FALSE)
    ELSE IF direct_match(user, item)
    THEN Verdict(FALSE, "DIRECT_ALLERGEN_MATCH_FALLBACK", "CRITICAL", None, FALSE, FALSE)
    ELSE IF celiac_gluten(user, item)
    THEN Verdict(FALSE, "CELIAC_GLUTEN_MATCH_FALLBACK (Critical Safety Rule)", "CRITICAL", None, FALSE, FALSE)
    ELSE Verdict(TRUE, "FALLBACK_NO_DIRECT_CONFLICT", "LOW", None, FALSE, FALSE)

\* (mutation of pred_exception_branch: the handler reports a confidence of 0.0)
pred_exception_reports_confidence(user, item) ==
    [fallback_branch(user, item) EXCEPT !.model_confidence = Some(0), !.encoded = TRUE, !.model_called = TRUE]

\* (mutation of pred_exception_branch: the handler skips the rules and reports no conflict)
pred_exception_assumes_safe(user, item) ==
    Verdict(TRUE, "FALLBACK_NO_DIRECT_CONFLICT_IN_PRED", "LOW", None, TRUE, TRUE)

\* check_safety, "except Exception" handler around predict_proba / predict
pred_exception_branch(user, item) ==
    IF allergens_missing(item)
    THEN Verdict(FALSE, "MISSING_ALLERGEN_INFO_FALLBACK_IN_PRED (Critical Safety Rule)", "HIGH", None, TRUE, TRUE)
    ELSE IF direct_match(user, item)
    THEN Verdict(FALSE, "DIRECT_ALLERGEN_MATCH_FALLBACK_IN_PRED", "CRITICAL", None, TRUE, TRUE)
    ELSE IF celiac_gluten(user, item)
    THEN Verdict(FALSE, "CELIAC_GLUTEN_MATCH_FALLBACK_IN_PRED (Critical Safety Rule)", "CRITICAL", None, TRUE, TRUE)
    ELSE Verdict(TRUE, "FALLBACK_NO_DIRECT_CONFLICT_IN_PRED", "LOW", None, TRUE, TRUE)

\* (mutation of risk_level_ml: below 0.7 the model's unsafe verdict is rated LOW)
risk_level_ml_without_medium(prob_unsafe) ==
    IF prob_unsafe > 90 THEN "CRITICAL" ELSE IF prob_unsafe > 70 THEN "HIGH" ELSE "LOW"

\* "CRITICAL" if prob_unsafe > 0.9 else ("HIGH" if prob_unsafe > 0.7 else "MEDIUM")
risk_level_ml(prob_unsafe) ==
    IF prob_unsafe > 90 THEN "CRITICAL" ELSE IF prob_unsafe > 70 THEN "HIGH" ELSE "MEDIUM"

\* check_safety, "if not is_safe_ml or prob_unsafe > 0.7:" branch
ml_unsafe_branch(user, item, prob_unsafe) ==
    IF shellfish_seafood(user, item)
    THEN Verdict(FALSE, "ML_Predicted_Unsafe BUT_HARD_RULE_Shellfish_Allergy_Seafood_Conflict",
                 "CRITICAL", Some(prob_unsafe), TRUE, TRUE)
    ELSE IF celiac_gluten(user, item)
    THEN Verdict(FALSE, "ML_Predicted_Unsafe BUT_HARD_RULE_Celiac_Gluten_Conflict",
                 "CRITICAL", Some(prob_unsafe), TRUE, TRUE)
    ELSE Verdict(FALSE, "ML_Model_Predicted_Unsafe", risk_level_ml(prob_unsafe),
                 Some(prob_unsafe), TRUE, TRUE)

\* check_safety, the else branch (the model says safe)
ml_safe_branch(user, item, prob_unsafe) ==
    IF shellfish_seafood(user, item)
    THEN Verdict(FALSE, "HARD_RULE_Shellfish_Allergy_Seafood_Conflict (Overrides ML Safe)",
                 "CRITICAL", Some(prob_unsafe), TRUE, TRUE)
    ELSE IF celiac_gluten(user, item)
    THEN Verdict(FALSE, "HARD_RULE_Celiac_Gluten_Conflict (Overrides ML Safe)",
                 "CRITICAL", Some(prob_unsafe), TRUE, TRUE)
    ELSE IF allergens_missing(item)
    THEN Verdict(FALSE, "MISSING_ALLERGEN_INFO (Critical Safety Rule Overrides ML Safe)",
                 "HIGH", Some(prob_unsafe), TRUE, TRUE)
    ELSE Verdict(TRUE, "ML_Model_Predicted_Safe", "LOW", Some(100 - prob_unsafe), TRUE, TRUE)

-----------------------------------------------------------------------------
(* The classifier: encoders and model *)

\* sorted(set(...)) as MultiLabelBinarizer.fit and LabelEncoder.fit order their classes_
SegOrder == <<<<"celiac">>, <<"disease">>, <<"gluten">>, <<"shellfish">>>>
SortedSegs(S) == SelectSeq(SegOrder, LAMBDA x : x \in S)

FixedColumns ==
    <<<<"cuisine_encoded">>, <<"budget_min">>, <<"budget_max">>, <<"price">>, <<"missing_allergen_info">>>>

\* the columns of X as _preprocess_data concatenates them
Columns(enc) ==
    SortedSegs(enc.user_allergies) \o SortedSegs(enc.menu_allergens)
        \o SortedSegs(enc.health_conditions) \o FixedColumns

\* __init__: encoders constructed, not fitted
NewEncoders ==
    [user_allergies |-> {}, menu_allergens |-> {}, health_conditions |-> {}, cuisine |-> {}]

\* __init__: xgb.XGBClassifier(...) without a booster
NewModel ==
    [fitted |-> FALSE, feature_names |-> <<>>, predicts |-> "none", prob_unsafe |-> 0,
     encoders_at_fit |-> NewEncoders]

\* what model.fit can do: raise, or produce a model that scores every row P(unsafe) = p
\* percent, or trees that split on the price column (in the training frame that fits,
\* the dearer item is the one labelled unsafe), or a model whose predict_proba raises
\* on the rows check_safety builds
Probs == {5, 50, 60, 80, 95}
FitOutcomes ==
    [predicts : {"proba"}, prob_unsafe : Probs]
        \cup [predicts : {"price_tree"}, prob_unsafe : {95}]
        \cup [predicts : {"raises", "fit_raises"}, prob_unsafe : {0}]

\* XGBClassifier.predict: class 1 where the probability is above 0.5
predict(prob_unsafe) == IF prob_unsafe > 50 THEN 1 ELSE 0

\* sorted(...) as LabelEncoder.fit orders the cuisine classes
CuisineOrder == <<"malay", "thai", "western">>
SortedCuisines(S) == SelectSeq(CuisineOrder, LAMBDA c : c \in S)

\* the position of the first column that carries a label
IndexOf(seq, x) == CHOOSE i \in DOMAIN seq : seq[i] = x /\ \A j \in 1..(i - 1) : seq[j] # x

\* MultiLabelBinarizer.transform on one tag list: a 0/1 cell per class; a tag
\* that is no class is dropped with a warning
Indicators(classes, tags) ==
    [i \in DOMAIN SortedSegs(classes) |-> IF SortedSegs(classes)[i] \in Range(tags) THEN 1 ELSE 0]

\* (allergens.isna()) | (allergens == '') | (allergens == 'none')
missing_allergen_info(item) ==
    IF IsNa(item.allergens) \/ item.allergens = EmptyStr \/ item.allergens = NoneStr THEN 1 ELSE 0

\* the cells of X_single under the labels Columns(encoders), before the reindex
single_values(user, item, restaurant) ==
    Indicators(encoders.user_allergies, safe_split(user.allergies))
        \o Indicators(encoders.menu_allergens, safe_split(item.allergens))
        \o Indicators(encoders.health_conditions, safe_split(user.health_conditions))
        \o << IndexOf(SortedCuisines(encoders.cuisine), restaurant.cuisine_type) - 1,
              user.budget_range_myr[1], user.budget_range_myr[2],
              item.price_myr, missing_allergen_info(item) >>

\* "for col in expected_feature_names: if col not in X_single.columns: X_single[col] = 0"
\* followed by X_single.reindex(columns=expected_feature_names, fill_value=0); pandas
\* refuses to reindex an axis with duplicate labels unless it already equals the target
reindex(columns, values, expected) ==
    LET added == SelectSeq(expected, LAMBDA c : c \notin Range(columns))
        cols == columns \o added
        vals == values \o [i \in DOMAIN added |-> 0]
    IN  IF cols # expected /\ Cardinality(Range(cols)) # Len(cols)
        THEN [kind |-> "raise", columns |-> <<>>, values |-> <<>>]
        ELSE [kind |-> "row", columns |-> expected,
              values |-> [i \in DOMAIN expected |-> vals[IndexOf(cols, expected[i])]]]

\* _preprocess_single_input
preprocess_single_input(user, item, restaurant) ==
    IF ~trained THEN [kind |-> "None", columns |-> <<>>, values |-> <<>>]
    ELSE IF restaurant.cuisine_type \notin encoders.cuisine
    THEN [kind |-> "raise", columns |-> <<>>, values |-> <<>>]  \* LabelEncoder.transform: unseen label
    ELSE IF IsNa(user.budget_range_myr)
    THEN [kind |-> "raise", columns |-> <<>>, values |-> <<>>]  \* int(x[0]) on a float
    ELSE reindex(Columns(encoders), single_values(user, item, restaurant), model.feature_names)

\* self.model.predict_proba(X_single)[0][1]: a price tree scores the rows above its
\* split (price 50) prob_unsafe and the rows below it 1 - prob_unsafe
predict_proba(X_single) ==
    IF model.predicts = "price_tree"
    THEN IF X_single.values[IndexOf(X_single.columns, <<"price">>)] > 50
         THEN model.prob_unsafe ELSE 100 - model.prob_unsafe
    ELSE model.prob_unsafe

\* check_safety, after the try block: "Interpret ML results"
interpret_ml(user, item, prob_unsafe) ==
    LET is_safe_ml == predict(prob_unsafe) = 0
    IN  IF ~is_safe_ml \/ prob_unsafe > 70
        THEN ml_unsafe_branch(user, item, prob_unsafe)
        ELSE ml_safe_branch(user, item, prob_unsafe)

\* (mutation of check_safety: the state test looks at fallback_active only)
check_safety_tests_fallback_only(user, item, restaurant) ==
    IF fallback_active THEN fallback_branch(user, item)
    ELSE LET X_single == preprocess_single_input(user, item, restaurant)
         IN  IF X_single.kind = "raise" THEN Raised("ValueError", TRUE, FALSE)
             ELSE IF X_single.kind = "None"
             THEN Verdict(FALSE, "PREPROCESSING_ERROR", "UNKNOWN", None, TRUE, FALSE)
             ELSE IF model.predicts = "raises" THEN pred_exception_branch(user, item)
             ELSE interpret_ml(user, item, predict_proba(X_single))

\* SafetyAgent.check_safety
check_safety(user, item, restaurant) ==
    IF ~trained \/ fallback_active THEN fallback_branch(user, item)
    ELSE LET X_single == preprocess_single_input(user, item, restaurant)
         IN  IF X_single.kind = "raise" THEN Raised("ValueError", TRUE, FALSE)
             ELSE IF X_single.kind = "None"
             THEN Verdict(FALSE, "PREPROCESSING_ERROR", "UNKNOWN", None, TRUE, FALSE)
             ELSE IF model.predicts = "raises" THEN pred_exception_branch(user, item)
             ELSE interpret_ml(user, item, predict_proba(X_single))

-----------------------------------------------------------------------------
(* Training data *)
TU_shellfish ==
    [allergies |-> EncodeTags({Tag_shellfish}), health_conditions |-> NoneStr, budget_range_myr |-> BudgetOk]
TU_celiac ==
    [allergies |-> NoneStr, health_conditions |-> EncodeTags({Tag_celiac_disease}), budget_range_myr |-> BudgetOk]
TU_no_budget ==
    [allergies |-> NoneStr, health_conditions |-> NoneStr, budget_range_myr |-> NaN]

TM_shellfish ==
    [allergens |-> EncodeTags({Tag_shellfish}), ingredients_clean |-> <<"fried", " ", "shrimp">>,
     safety_status |-> "VERIFIED", price_myr |-> 40, restaurant_id |-> "R1"]
TM_gluten ==
    [allergens |-> EncodeTags({Tag_gluten}), ingredients_clean |-> <<"rice">>,
     safety_status |-> "VERIFIED", price_myr |-> 40, restaurant_id |-> "R1"]
TM_risk ==
    [allergens |-> NoneStr, ingredients_clean |-> <<"rice">>,
     safety_status |-> "POTENTIAL_RISK", price_myr |-> 60, restaurant_id |-> "R2"]
TM_unknown ==
    [allergens |-> NaN, ingredients_clean |-> <<"rice">>,
     safety_status |-> "VERIFIED", price_myr |-> 40, restaurant_id |-> "R2"]

\* the (user_profiles, menus) frames train is called with
TrainFrames ==
    { <<{}, {TM_shellfish, TM_gluten, TM_risk}>>,
      <<{TU_celiac}, {TM_gluten, TM_unknown}>>,
      <<{TU_shellfish}, {TM_shellfish, TM_gluten, TM_risk}>>,
      <<{TU_shellfish, TU_celiac}, {TM_gluten, TM_risk, TM_unknown}>>,
      <<{TU_shellfish, TU_celiac}, {TM_shellfish, TM_risk, TM_unknown}>>,
      <<{TU_shellfish, TU_no_budget}, {TM_shellfish, TM_gluten, TM_risk}>>,
      <<{TU_shellfish, TU_celiac, TU_no_budget}, {TM_shellfish, TM_gluten, TM_risk, TM_unknown}>> }

TrainSets ==
    {d \in TrainFrames : Cardinality(d[1]) <= MaxTrainUsers /\ Cardinality(d[2]) <= MaxTrainItems}

\* restaurants.csv
RestaurantTable == [r \in {"R1", "R2"} |-> IF r = "R1" THEN "malay" ELSE "thai"]

\* _preprocess_data.is_unsafe
is_unsafe(user, item) ==
    LET user_alls == Range(safe_split(user.allergies))
        menu_alls == Range(safe_split(item.allergens))
        user_health == Range(safe_split(user.health_conditions))
    IN  IF user_alls \cap menu_alls # {} THEN 1
        ELSE IF Lit_celiac_disease \in user_health /\ Lit_gluten \in menu_alls THEN 1
        ELSE IF item.safety_status = "POTENTIAL_RISK" THEN 1
        ELSE 0

\* full_data: the cross product of the users and the items
FullData(U, M) == U \X M

\* the four fit_transform calls of _preprocess_data
fit_encoders(U, M) ==
    LET rows == FullData(U, M)
    IN  [user_allergies |-> UNION {Range(safe_split(r[1].allergies)) : r \in rows},
         menu_allergens |-> UNION {Range(safe_split(r[2].allergens)) : r \in rows},
         health_conditions |-> UNION {Range(safe_split(r[1].health_conditions)) : r \in rows},
         cuisine |-> {RestaurantTable[r[2].restaurant_id] : r \in rows}]

\* budget_range_myr.str.split('-').apply(lambda x: int(x[0])) raises on a NaN budget
budget_raises(U, M) == \E r \in FullData(U, M) : IsNa(r[1].budget_range_myr)

\* y.value_counts()
LabelCount(U, M, label) == Cardinality({r \in FullData(U, M) : is_unsafe(r[1], r[2]) = label})

\* X.empty or y.empty or len(y.unique()) < 2
insufficient(U, M) ==
    \/ FullData(U, M) = {}
    \/ Cardinality({is_unsafe(r[1], r[2]) : r \in FullData(U, M)}) < 2

\* train_test_split(X, y, test_size=0.2, stratify=y) raises ValueError when a class has
\* fewer than 2 members or the train or test part is smaller than the number of classes
split_raises(U, M) ==
    LET n == Cardinality(FullData(U, M))
        n_test == (n + 4) \div 5
        n_train == n - n_test
    IN  \/ LabelCount(U, M, 0) < 2
        \/ LabelCount(U, M, 1) < 2
        \/ n_train < 2
        \/ n_test < 2

\* X carries one column label twice: the DMatrix that model.fit builds from X_train
\* refuses feature names that are not unique, and fit raises ValueError
duplicate_columns(U, M) ==
    Cardinality(Range(Columns(fit_encoders(U, M)))) # Len(Columns(fit_encoders(U, M)))

\* what _preprocess_data, the label check, the split and the column labels come to on
\* each frame (they depend on the frame alone, not on the agent)
OnFrame ==
    [d \in TrainFrames \cup {<<{}, {}>>} |->
        [fit_encoders |-> fit_encoders(d[1], d[2]),
         budget_raises |-> budget_raises(d[1], d[2]),
         insufficient |-> insufficient(d[1], d[2]),
         split_raises |-> split_raises(d[1], d[2]),
         duplicate_columns |-> duplicate_columns(d[1], d[2])]]

\* _preprocess_data as train sees it: the encoders it leaves behind and whether it raised.
\* On an empty cross product pandas may raise before the encoders are touched (early).
preprocess_data(U, M, early) ==
    IF FullData(U, M) = {} /\ early THEN [raised |-> TRUE, encoders |-> encoders]
    ELSE [raised |-> OnFrame[<<U, M>>].budget_raises, encoders |-> OnFrame[<<U, M>>].fit_encoders]

-----------------------------------------------------------------------------
(* Actions *)

\* a call that has not returned anything yet
NoResult == [kind |-> "none"]

\* the agents of palate_ai_project are not used
ProjectIdle ==
    /\ safety_result = NoResult
    /\ menus = <<>>
    /\ top_n = 0
    /\ recommended_items = NoResult
    /\ extracted_text = <<>>
    /\ ocr_results = NoResult
    /\ safe_list = <<>>
    /\ blocked_list = <<>>

\* The caller holds one (user, item, restaurant) triple and asks about it; the
\* agent is freshly constructed.
Init ==
    /\ trained = FALSE
    /\ fallback_active = FALSE
    /\ encoders = NewEncoders
    /\ model = NewModel
    /\ op = "init"
    /\ arg_user \in Users
    /\ arg_item \in Items
    /\ arg_restaurant \in Restaurants
    /\ verdict = NoVerdict
    /\ prev_verdict = NoVerdict
    /\ train_ret = "none"
    /\ tpc = "idle"
    /\ tdata = <<{}, {}>>
    /\ ProjectIdle

\* (mutation of fall_back: the exit raises the fallback flag and forgets trained)
fall_back_keeps_trained(exit) ==
    /\ fallback_active' = TRUE
    /\ trained' = trained
    /\ train_ret' = exit

\* the three "Falling back to rule-based safety checks only" exits of train
fall_back(exit) ==
    /\ fallback_active' = TRUE
    /\ trained' = FALSE
    /\ train_ret' = exit

\* (mutation of fit_phase: a completed fit leaves fallback_active as it was)
fit_phase_keeps_fallback(U, M, fit) ==
    IF OnFrame[<<U, M>>].insufficient THEN fall_back("fallback_insufficient") /\ UNCHANGED model
    ELSE IF OnFrame[<<U, M>>].split_raises
    THEN train_ret' = "raised_split" /\ UNCHANGED <<trained, fallback_active, model>>
    ELSE IF fit.predicts = "fit_raises" THEN fall_back("fallback_fit") /\ UNCHANGED model
    ELSE /\ model' = [fitted |-> TRUE, feature_names |-> Columns(encoders'),
                      predicts |-> fit.predicts, prob_unsafe |-> fit.prob_unsafe,
                      encoders_at_fit |-> encoders']
         /\ trained' = TRUE
         /\ fallback_active' = fallback_active
         /\ train_ret' = "completed"

\* train, from the label-distribution check to the end
fit_phase(U, M, fit) ==
    IF OnFrame[<<U, M>>].insufficient THEN fall_back("fallback_insufficient") /\ UNCHANGED model
    ELSE IF OnFrame[<<U, M>>].split_raises
    THEN train_ret' = "raised_split" /\ UNCHANGED <<trained, fallback_active, model>>
    ELSE IF fit.predicts = "fit_raises" THEN fall_back("fallback_fit") /\ UNCHANGED model
    ELSE /\ model' = [fitted |-> TRUE, feature_names |-> Columns(encoders'),
                      predicts |-> fit.predicts, prob_unsafe |-> fit.prob_unsafe,
                      encoders_at_fit |-> encoders']
         /\ trained' = TRUE
         /\ fallback_active' = FALSE
         /\ train_ret' = "completed"

\* a train call begins: the caller has no verdict in hand
CallTrain(U, M) ==
    /\ op' = "train"
    /\ verdict' = NoVerdict
    /\ prev_verdict' = NoVerdict
    /\ tdata' = <<U, M>>
    /\ UNCHANGED <<arg_user, arg_item, arg_restaurant, project_vars>>

\* the exits of the fit phase consult the fit outcome only where the fit is reached
reaches_fit(U, M) == ~OnFrame[<<U, M>>].insufficient /\ ~OnFrame[<<U, M>>].split_raises
NoFit == [predicts |-> "fit_raises", prob_unsafe |-> 0]

\* SafetyAgent.train, run to completion
Train(U, M, early, fit) ==
    /\ tpc = "idle"
    /\ CallTrain(U, M)
    /\ LET pre == preprocess_data(U, M, early)
       IN  /\ encoders' = pre.encoders
           /\ IF pre.raised THEN fall_back("fallback_preprocess") /\ UNCHANGED model
              ELSE fit_phase(U, M, fit)
    /\ UNCHANGED tpc

\* (mutation of CheckSafety: a prediction error switches the agent to fallback for good)
CheckSafety_degrades_for_good ==
    /\ op' = "check_safety"
    /\ verdict' = check_safety(arg_user, arg_item, arg_restaurant)
    /\ prev_verdict' = verdict
    /\ fallback_active' = (fallback_active \/ (verdict'.model_called /\ verdict'.model_confidence = None))
    /\ UNCHANGED <<trained, encoders, model, train_ret, tpc, tdata,
                   arg_user, arg_item, arg_restaurant, project_vars>>

\* SafetyAgent.check_safety on the caller's triple; the caller keeps the verdict of
\* the call before (none since the last train)
CheckSafety ==
    /\ op' = "check_safety"
    /\ verdict' = check_safety(arg_user, arg_item, arg_restaurant)
    /\ prev_verdict' = verdict
    /\ UNCHANGED <<trained, fallback_active, encoders, model, train_ret, tpc, tdata,
                   arg_user, arg_item, arg_restaurant, project_vars>>

EarlyChoices(d) == IF FullData(d[1], d[2]) = {} THEN BOOLEAN ELSE {FALSE}
FitChoices(d) ==
    IF reaches_fit(d[1], d[2]) /\ ~OnFrame[d].budget_raises /\ ~OnFrame[d].duplicate_columns
    THEN FitOutcomes ELSE {NoFit}

TrainStep ==
    \E d \in TrainSets : \E early \in EarlyChoices(d), fit \in FitChoices(d) :
        Train(d[1], d[2], early, fit)

Next == TrainStep \/ CheckSafety

Spec == Init /\ [][Next]_vars

-----------------------------------------------------------------------------
(* train and check_safety on two threads: nothing in the class serialises them. *)
(* train is cut where _preprocess_data has refitted the encoders in place and   *)
(* the label check, the split and the fit are still to come.                    *)

\* train up to the return of _preprocess_data
TrainBegin(U, M, early) ==
    /\ tpc = "idle"
    /\ CallTrain(U, M)
    /\ LET pre == preprocess_data(U, M, early)
       IN  /\ encoders' = pre.encoders
           /\ IF pre.raised
              THEN fall_back("fallback_preprocess") /\ UNCHANGED <<model, tpc>>
              ELSE tpc' = "fit" /\ UNCHANGED <<trained, fallback_active, model, train_ret>>

\* train from the label-distribution check to the end
TrainFinish(fit) ==
    /\ tpc = "fit"
    /\ encoders' = encoders
    /\ fit_phase(tdata[1], tdata[2], fit)
    /\ tpc' = "idle"
    /\ UNCHANGED <<op, verdict, prev_verdict, tdata, arg_user, arg_item, arg_restaurant, project_vars>>

TrainBeginStep == \E d \in TrainSets : \E early \in EarlyChoices(d) : TrainBegin(d[1], d[2], early)

TrainFinishStep == \E fit \in FitChoices(tdata) : TrainFinish(fit)

NextConc == TrainBeginStep \/ TrainFinishStep \/ CheckSafety

SpecConc == Init /\ [][NextConc]_vars

-----------------------------------------------------------------------------
(* palate_ai_project: the rule-only SafetyAgent, the RecommendationAgent and   *)
(* the MenuOCRAgent.  They keep no state of their own between calls; the       *)
(* SafetyAgent of palate_ai_ml_project is not part of that project and stays   *)
(* as constructed.                                                             *)

ml_vars == <<trained, fallback_active, encoders, model, arg_restaurant, verdict, prev_verdict,
             train_ret, tpc, tdata>>

MlIdle ==
    /\ trained = FALSE
    /\ fallback_active = FALSE
    /\ encoders = NewEncoders
    /\ model = NewModel
    /\ arg_restaurant = [restaurant_id |-> "R1", cuisine_type |-> "malay"]
    /\ verdict = NoVerdict
    /\ prev_verdict = NoVerdict
    /\ train_ret = "none"
    /\ tpc = "idle"
    /\ tdata = <<{}, {}>>

\* needle in haystack, for two strings: the needle's tokens occur in a row
Contains(haystack, needle) ==
    \E i \in 1..(Len(haystack) + 1) :
        /\ i + Len(needle) - 1 <= Len(haystack)
        /\ SubSeq(haystack, i, i + Len(needle) - 1) = needle

\* SafetyAgent.ALLERGEN_KEYWORDS, in the order of the dict and of its lists
ALLERGEN_KEYWORDS ==
    << [type |-> <<"shellfish">>,
        keywords |-> << <<"shrimp">>, <<"prawn">>, <<"crab">>, <<"lobster">>, <<"mussel">>, <<"clam">>,
                        <<"oyster">>, <<"seafood">>, <<"anchovies">>, <<"sardines">> >>],
       [type |-> <<"gluten">>,
        keywords |-> << <<"wheat">>, <<"barley">>, <<"rye">>, <<"bread">>, <<"pasta">>, <<"flour">>,
                        <<"semolina">>, <<"soy", " ", "sauce">>, <<"malt">> >>],
       [type |-> <<"dairy">>,
        keywords |-> << <<"milk">>, <<"cheese">>, <<"butter">>, <<"cream">>, <<"yogurt">>, <<"whey">>,
                        <<"casein">> >>],
       [type |-> <<"egg">>,
        keywords |-> << <<"egg">>, <<"omelet">>, <<"mayonnaise">>, <<"custard">> >>],
       [type |-> <<"peanut">>,
        keywords |-> << <<"peanut">>, <<"groundnut">>, <<"arachis">> >>],
       [type |-> <<"tree", "_", "nuts">>,
        keywords |-> << <<"almond">>, <<"walnut">>, <<"cashew">>, <<"hazelnut">>, <<"pecan">>,
                        <<"pistachio">>, <<"macadamia">> >>],
       [type |-> <<"soy">>,
        keywords |-> << <<"soy">>, <<"tofu">>, <<"tempeh">>, <<"edamame">>, <<"miso">> >>] >>

\* self.ALLERGEN_KEYWORDS.get(key, []): the keyword list of a type, empty for no key
KeywordsOf(key) ==
    IF \E i \in DOMAIN ALLERGEN_KEYWORDS : ALLERGEN_KEYWORDS[i].type = key
    THEN ALLERGEN_KEYWORDS[CHOOSE i \in DOMAIN ALLERGEN_KEYWORDS : ALLERGEN_KEYWORDS[i].type = key].keywords
    ELSE <<>>

\* the dict check_safety returns: the reason is its rule name and the strings the
\* f-string quotes after it
SafetyResult(safe, rule, quoted, risk_level) ==
    [kind |-> "return", safe |-> safe, reason |-> [rule |-> rule, quoted |-> quoted],
     risk_level |-> risk_level]

\* an exception that leaves a call of these agents
ResultRaised(exc) ==
    [kind |-> "raise", safe |-> FALSE, reason |-> [rule |-> exc, quoted |-> <<>>], risk_level |-> ""]

\* [a.strip() for a in user_allergies_str.split('_')] if user_allergies_str != 'none' else []
user_allergies_of(user_profile) ==
    IF user_profile.allergies # NoneStr
    THEN [i \in DOMAIN Split(user_profile.allergies) |-> Strip(Split(user_profile.allergies)[i])]
    ELSE <<>>

\* "for keyword in allergen_keywords: if keyword in menu_ingredients": the keywords found
FoundKeywords(keywords, menu_ingredients) ==
    SelectSeq(keywords, LAMBDA k : Contains(menu_ingredients, k))

\* "for user_allergy in user_allergies": the first return of the loop, or no result
RECURSIVE allergen_loop(_, _)
allergen_loop(user_allergies, menu_item) ==
    IF user_allergies = <<>> THEN NoResult
    ELSE LET user_allergy == Head(user_allergies)
             found == FoundKeywords(KeywordsOf(user_allergy), menu_item.ingredients_clean)
         IN  IF Contains(menu_item.allergens, user_allergy)
             THEN SafetyResult(FALSE, "DIRECT_ALLERGEN_MATCH", <<user_allergy>>, "CRITICAL")
             ELSE IF found # <<>>
             THEN SafetyResult(FALSE, "INGREDIENT_KEYWORD_MATCH", <<found[1], user_allergy>>, "CRITICAL")
             ELSE allergen_loop(Tail(user_allergies), menu_item)

\* 'celiac' in health_conditions.lower() and ('gluten' in menu_allergens or any gluten
\* keyword in menu_ingredients)
celiac_check(user_profile, menu_item) ==
    /\ Contains(Lower(user_profile.health_conditions), <<"celiac">>)
    /\ \/ Contains(menu_item.allergens, <<"gluten">>)
       \/ FoundKeywords(KeywordsOf(<<"gluten">>), menu_item.ingredients_clean) # <<>>

\* SafetyAgent.check_safety of palate_ai_project/agents/safety_agent.py
check_safety_rules(user_profile, menu_item) ==
    IF IsNa(user_profile.allergies)
    THEN ResultRaised("AttributeError")        \* float has no attribute split
    ELSE IF IsNa(menu_item.allergens) \/ Strip(menu_item.allergens) = EmptyStr
    THEN SafetyResult(FALSE, "INCOMPLETE_DATA", <<>>, "HIGH")
    ELSE IF allergen_loop(user_allergies_of(user_profile), menu_item) # NoResult
    THEN allergen_loop(user_allergies_of(user_profile), menu_item)
    ELSE IF celiac_check(user_profile, menu_item)
    THEN SafetyResult(FALSE, "CELIAC_DISEASE_GLUTEN", <<>>, "CRITICAL")
    ELSE SafetyResult(TRUE, "NO_CONFLICTS_FOUND", <<>>, "LOW")

\* rows of user_profiles.csv and menu.csv the agent is asked about
RuleAllergyValues ==
    {NaN, NoneStr, <<"shellfish">>, <<"gluten">>, <<"gluten", "_", "shellfish">>,
     <<"shellfish", "_", "gluten">>}
RuleAllergenValues ==
    {NaN, EmptyStr, BlankStr, NoneStr, <<"gluten">>, <<"shellfish">>, <<"gluten", "_", "shellfish">>}
RuleIngredientValues ==
    {<<"rice">>, <<"fried", " ", "shrimp">>, <<"wheat", " ", "noodles">>, <<"seafood", " ", "soup">>}
RuleUsers == [allergies : RuleAllergyValues, health_conditions : ConditionValues]
RuleItems == [allergens : RuleAllergenValues, ingredients_clean : RuleIngredientValues]

\* the caller holds a user profile and a menu item
InitRules ==
    /\ MlIdle
    /\ op = "init"
    /\ arg_user \in RuleUsers
    /\ arg_item \in RuleItems
    /\ ProjectIdle

\* safety_agent.check_safety(user_profile, menu_details)
RulesCheckSafety ==
    /\ op' = "check_safety"
    /\ safety_result' = check_safety_rules(arg_user, arg_item)
    /\ UNCHANGED <<ml_vars, arg_user, arg_item, menus, top_n, recommended_items, extracted_text,
                   ocr_results, safe_list, blocked_list>>

NextRules == RulesCheckSafety

SpecRules == InitRules /\ [][NextRules]_vars

-----------------------------------------------------------------------------
(* palate_ai_project: RecommendationAgent *)

\* bounds: rows of menu.csv handed to the agent, and the largest top_n asked for
MaxMenuRows == 3
MaxTopN == 2

\* restaurants.csv: halal_certified by restaurant_id
HalalCertified == [r \in {"R1", "R2"} |-> IF r = "R1" THEN "Yes" ELSE "No"]

\* rows of menu.csv
MenuPool ==
    { [menu_id |-> "M1", restaurant_id |-> "R1", dish_name |-> "nasi lemak", price_myr |-> 30],
      [menu_id |-> "M2", restaurant_id |-> "R1", dish_name |-> "satay", price_myr |-> 55],
      [menu_id |-> "M3", restaurant_id |-> "R2", dish_name |-> "pasta", price_myr |-> 40],
      [menu_id |-> "M4", restaurant_id |-> "R2", dish_name |-> "steak", price_myr |-> 56],
      [menu_id |-> "M5", restaurant_id |-> "R1", dish_name |-> "laksa", price_myr |-> 40] }

\* the frames of at most MaxMenuRows distinct rows, in any row order
MenuFrames ==
    UNION { {f \in [1..n -> MenuPool] : \A i, j \in 1..n : f[i] = f[j] => i = j} : n \in 0..MaxMenuRows }

\* user profiles asked about: dietary_restrictions and budget_range_myr ('30-55' is <<30, 55>>)
RecUsers ==
    [dietary_restrictions : {<<"halal">>, <<"none">>}, budget_range_myr : {<<30, 55>>, <<40, 40>>, NaN}]

\* candidates.sort_values(by='price_myr', ascending=True): the orders of the rows with
\* prices ascending (the default sort is not stable, rows of one price come in any order)
sort_values(rows) ==
    { [i \in DOMAIN rows |-> rows[f[i]]] :
        f \in { g \in [DOMAIN rows -> DOMAIN rows] :
                  /\ \A i, j \in DOMAIN rows : g[i] = g[j] => i = j
                  /\ \A i, j \in DOMAIN rows : i < j => rows[g[i]].price_myr <= rows[g[j]].price_myr } }

\* DataFrame.head(n) for n >= 0
head(rows, n) == SubSeq(rows, 1, IF n < Len(rows) THEN n ELSE Len(rows))

\* the dataframe recommend returns
Recommended(rows) == [kind |-> "return", rows |-> rows]
RecommendRaised(exc) == [kind |-> "raise", rows |-> <<>>]

\* (mutation of recommend: the budget filter is left out)
recommend_without_budget_filter(user_profile, n) ==
    LET halal == Contains(Lower(user_profile.dietary_restrictions), <<"halal">>)
        candidates == SelectSeq(menus, LAMBDA m : ~halal \/ HalalCertified[m.restaurant_id] = "Yes")
    IN  IF IsNa(user_profile.budget_range_myr)
        THEN {RecommendRaised("AttributeError")}
        ELSE {Recommended(head(sorted, n)) : sorted \in sort_values(candidates)}

\* RecommendationAgent.recommend: the results the call can produce
recommend(user_profile, n) ==
    LET halal == Contains(Lower(user_profile.dietary_restrictions), <<"halal">>)
        candidates == SelectSeq(menus, LAMBDA m : ~halal \/ HalalCertified[m.restaurant_id] = "Yes")
        budget_min == user_profile.budget_range_myr[1]
        budget_max == user_profile.budget_range_myr[2]
        in_budget == SelectSeq(candidates,
                               LAMBDA m : m.price_myr >= budget_min /\ m.price_myr <= budget_max)
    IN  IF IsNa(user_profile.budget_range_myr)
        THEN {RecommendRaised("AttributeError")}      \* float has no attribute split
        ELSE {Recommended(head(sorted, n)) : sorted \in sort_values(in_budget)}

\* RecommendationAgent(menus, restaurants) constructed; the caller holds a profile and a top_n
InitRecommend ==
    /\ MlIdle
    /\ op = "init"
    /\ arg_user \in RecUsers
    /\ arg_item = NoResult
    /\ safety_result = NoResult
    /\ menus \in MenuFrames
    /\ top_n \in 0..MaxTopN
    /\ recommended_items = NoResult
    /\ extracted_text = <<>>
    /\ ocr_results = NoResult
    /\ safe_list = <<>>
    /\ blocked_list = <<>>

\* rec_agent.recommend(user_profile, top_n)
Recommend ==
    /\ op' = "recommend"
    /\ recommended_items' \in recommend(arg_user, top_n)
    /\ UNCHANGED <<ml_vars, arg_user, arg_item, safety_result, menus, top_n, extracted_text,
                   ocr_results, safe_list, blocked_list>>

NextRecommend == Recommend

SpecRecommend == InitRecommend /\ [][NextRecommend]_vars

-----------------------------------------------------------------------------
(* palate_ai_project: MenuOCRAgent.  A text is the sequence of its lines (the *)
(* pieces between '\n'); a line is a string, cut into tokens wherever a word  *)
(* the agent searches for begins or ends.                                     *)

\* bound: lines of a text
MaxLines == 2

\* lines an OCR pass hands over
OcrLines ==
    { <<"Burger", ". ", "Ingredient", "s: ", "beef", ", ", "lettuce", ", ", "tomato", ". ",
        "Allergen", "s: ", "gluten", ".">>,
      <<"Allergen", "s: ", "gluten", ".">>,
      <<"Allergen", "s: ", "Shellfish", ", ", "Gluten", ", ", "Dairy", " (", "Cream", " used in sauce)">>,
      <<"Ingredient", "s: ", "Fresh", " linguine, succulent ", "shrimp", ", ", "mussel", "s">>,
      <<"Seafood", " ", "Pasta">>,
      <<"Contains", ": ", "egg", ", ", "wheat">>,
      <<"Allergen", "s: ", "peanut">> }

OcrTexts == UNION { [1..n -> OcrLines] : n \in 0..MaxLines }

\* MenuOCRAgent._get_allergen_keywords: the table of SafetyAgent.ALLERGEN_KEYWORDS again
get_allergen_keywords == ALLERGEN_KEYWORDS

\* section += " " + line, over the lines chosen for a section
RECURSIVE section(_)
section(lines) ==
    IF lines = <<>> THEN <<>> ELSE <<" ">> \o Head(lines) \o section(Tail(lines))

in_ingredients(line) == Contains(line, <<"ingredient">>)
in_allergens(line) ==
    /\ ~Contains(line, <<"ingredient">>)
    /\ Contains(line, <<"allergen">>) \/ Contains(line, <<"contains">>)

\* the allergen types one of whose keywords occurs in the allergens section
found_allergens(allergens_section) ==
    { get_allergen_keywords[i].type : i \in
        { j \in DOMAIN get_allergen_keywords :
            \E k \in Range(get_allergen_keywords[j].keywords) : Contains(allergens_section, k) } }

\* MenuOCRAgent.process_menu_text: the dict it returns (texts here are shorter than the
\* 150 characters of the preview)
process_menu_text(text) ==
    LET lines == [i \in DOMAIN text |-> Lower(text[i])]
        ingredients_section == section(SelectSeq(lines, in_ingredients))
        allergens_section == section(SelectSeq(lines, in_allergens))
        found == found_allergens(allergens_section)
    IN  [input_text_preview |-> text,
         extracted_ingredients_summary |-> Strip(ingredients_section),
         extracted_allergens_list |-> found,
         ocr_extracted_status |-> IF found # {} THEN "VERIFIED" ELSE "POTENTIAL_RISK",
         confidence_in_extraction |-> IF found # {} THEN 80 ELSE 30]

\* the caller holds a text
InitOcr ==
    /\ MlIdle
    /\ op = "init"
    /\ arg_user = NoResult
    /\ arg_item = NoResult
    /\ safety_result = NoResult
    /\ menus = <<>>
    /\ top_n = 0
    /\ recommended_items = NoResult
    /\ extracted_text \in OcrTexts
    /\ ocr_results = NoResult
    /\ safe_list = <<>>
    /\ blocked_list = <<>>

\* ocr_agent.process_menu_text(text)
ProcessMenuText ==
    /\ op' = "process_menu_text"
    /\ ocr_results' = [kind |-> "return", value |-> process_menu_text(extracted_text)]
    /\ UNCHANGED <<ml_vars, arg_user, arg_item, safety_result, menus, top_n, recommended_items,
                   extracted_text, safe_list, blocked_list>>

NextOcr == ProcessMenuText

SpecOcr == InitOcr /\ [][NextOcr]_vars

-----------------------------------------------------------------------------
(* palate_ai_ml_project/app.py: the script loads the data, replaces NaN by     *)
(* 'none' in the allergy, health and allergen columns, and on the button runs  *)
(* its own RecommendationAgent and SafetyAgent (classes written in the script) *)
(* over the loaded frames.                                                     *)

\* rec_agent.recommend(user, menus, restaurants, top_n=10)
AppTopN == 10

\* rows of data/Menu.csv as read_csv returns them (an empty allergens cell is NaN)
AppMenuPool ==
    { [menu_id |-> "M1", restaurant_id |-> "R1", dish_name |-> "nasi lemak", price_myr |-> 40,
       allergens |-> NaN],
      [menu_id |-> "M2", restaurant_id |-> "R1", dish_name |-> "satay", price_myr |-> 30,
       allergens |-> NoneStr],
      [menu_id |-> "M3", restaurant_id |-> "R2", dish_name |-> "pasta", price_myr |-> 55,
       allergens |-> <<"gluten">>],
      [menu_id |-> "M4", restaurant_id |-> "R1", dish_name |-> "laksa", price_myr |-> 40,
       allergens |-> BlankStr],
      [menu_id |-> "M5", restaurant_id |-> "R2", dish_name |-> "steak", price_myr |-> 60,
       allergens |-> NaN] }

\* the frames of at most MaxMenuRows distinct rows, in any row order
AppMenuFrames ==
    UNION { {f \in [1..n -> AppMenuPool] : \A i, j \in 1..n : f[i] = f[j] => i = j} : n \in 0..MaxMenuRows }

\* the row of data/User_Profiles.csv selected in the sidebar, as read_csv returns it
AppUsers ==
    [allergies : {NaN, <<"gluten">>}, health_conditions : {NaN, Lit_celiac_disease},
     dietary_restrictions : {<<"halal">>, <<"none">>}, budget_range_myr : {<<30, 55>>, NaN}]

\* Series.fillna('none').astype(str) on one cell
fillna_none(x) == IF IsNa(x) THEN NoneStr ELSE x

\* "for col in ['allergies', 'health_conditions']: users[col] = users[col].fillna('none')"
sanitize_user(user) ==
    [user EXCEPT !.allergies = fillna_none(user.allergies),
                 !.health_conditions = fillna_none(user.health_conditions)]

\* "for col in ['allergens']: menus[col] = menus[col].fillna('none')"
sanitize_menus(menus_df) ==
    [i \in DOMAIN menus_df |-> [menus_df[i] EXCEPT !.allergens = fillna_none(menus_df[i].allergens)]]

\* DataFrame.nlargest(n, 'price_myr'): prices descending, rows of one price in frame order
nlargest(rows, n) ==
    LET g == CHOOSE f \in [DOMAIN rows -> DOMAIN rows] :
                 /\ \A i, j \in DOMAIN rows : f[i] = f[j] => i = j
                 /\ \A i, j \in DOMAIN rows : i < j =>
                       \/ rows[f[i]].price_myr > rows[f[j]].price_myr
                       \/ rows[f[i]].price_myr = rows[f[j]].price_myr /\ f[i] < f[j]
    IN  head([i \in DOMAIN rows |-> rows[g[i]]], n)

\* the four columns recommend returns
rec_columns(m) ==
    [menu_id |-> m.menu_id, restaurant_id |-> m.restaurant_id, dish_name |-> m.dish_name,
     price_myr |-> m.price_myr]

\* RecommendationAgent.recommend of app.py inside the try of the script: an exception
\* (a NaN budget has no split) leaves an empty frame of recommendations
app_recommend(user, menus_df, n) ==
    LET halal == Contains(Lower(user.dietary_restrictions), <<"halal">>)
        candidates == SelectSeq(menus_df, LAMBDA m : ~halal \/ HalalCertified[m.restaurant_id] = "Yes")
        min_b == user.budget_range_myr[1]
        max_b == user.budget_range_myr[2]
        in_budget == SelectSeq(candidates, LAMBDA m : m.price_myr >= min_b /\ m.price_myr <= max_b)
        largest == nlargest(in_budget, n)
    IN  IF IsNa(user.budget_range_myr) THEN <<>>
        ELSE [i \in DOMAIN largest |-> rec_columns(largest[i])]

\* x.split('_') if x != 'none' else [], as a set
app_tag_set(x) == IF x # NoneStr THEN Range(Split(x)) ELSE {}

\* SafetyAgent.check_safety of app.py (user and menu_item come from the sanitized frames)
app_check_safety(user, menu_item) ==
    IF IsNa(menu_item.allergens) \/ Strip(menu_item.allergens) = EmptyStr
    THEN [safe |-> FALSE, reason |-> "MISSING_ALLERGEN_INFO"]
    ELSE IF app_tag_set(user.allergies) \cap app_tag_set(menu_item.allergens) # {}
    THEN [safe |-> FALSE, reason |-> "DIRECT_ALLERGEN_MATCH"]
    ELSE IF /\ Contains(user.health_conditions, Lit_celiac_disease)
            /\ Lit_gluten \in app_tag_set(menu_item.allergens)
    THEN [safe |-> FALSE, reason |-> "CELIAC_GLUTEN_CONFLICT"]
    ELSE [safe |-> TRUE, reason |-> "NO_CONFLICT"]

\* menus[menus['menu_id'] == menu_id].iloc[0]
menu_row(menus_df, menu_id) ==
    menus_df[CHOOSE i \in DOMAIN menus_df :
                 /\ menus_df[i].menu_id = menu_id
                 /\ \A j \in 1..(i - 1) : menus_df[j].menu_id # menu_id]

\* {**row.to_dict(), **safety_result}
combined(row, result) ==
    [menu_id |-> row.menu_id, restaurant_id |-> row.restaurant_id, dish_name |-> row.dish_name,
     price_myr |-> row.price_myr, safe |-> result.safe, reason |-> result.reason]

\* the script has loaded the data files; the sidebar holds one user row
InitApp ==
    /\ MlIdle
    /\ op = "init"
    /\ arg_user \in AppUsers
    /\ arg_item = NoResult
    /\ safety_result = NoResult
    /\ menus \in AppMenuFrames
    /\ top_n = AppTopN
    /\ recommended_items = NoResult
    /\ extracted_text = <<>>
    /\ ocr_results = NoResult
    /\ safe_list = <<>>
    /\ blocked_list = <<>>

\* one run of the script with the button pressed: sanitization, recommendation, and the
\* safety loop over the recommendations
RunAllAgents ==
    LET user == sanitize_user(arg_user)
        menus_df == sanitize_menus(menus)
        recs == app_recommend(user, menus_df, top_n)
        results == [i \in DOMAIN recs |->
                       combined(recs[i], app_check_safety(user, menu_row(menus_df, recs[i].menu_id)))]
    IN  /\ op' = "run_all_agents"
        /\ recommended_items' = Recommended(recs)
        /\ safe_list' = SelectSeq(results, LAMBDA c : c.safe)
        /\ blocked_list' = SelectSeq(results, LAMBDA c : ~c.safe)
        /\ UNCHANGED <<ml_vars, arg_user, arg_item, safety_result, menus, top_n, extracted_text,
                       ocr_results>>

NextApp == RunAllAgents

SpecApp == InitApp /\ [][NextApp]_vars

-----------------------------------------------------------------------------
(* Properties *)

\* the last operation was a check_safety call that returned a verdict
Returned == op = "check_safety" /\ verdict.kind = "return"

\* the classifier state a decision is made in
ModelBacked == trained /\ ~fallback_active

\* the rule predicates, on what the records mean
SeafoodKeywords == {"seafood", "shrimp"}
SeafoodIngredients(item) == \E i \in DOMAIN item.ingredients_clean :
    LowerTok(item.ingredients_clean[i]) \in SeafoodKeywords
MissingAllergenInfo(item) == item.allergens \in {NaN, EmptyStr, BlankStr}
AllergenIntersection(user, item) == UserAllergies(user) \cap ItemAllergens(item) # {}
CeliacWithGluten(user, item) ==
    Tag_celiac_disease \in UserConditions(user) /\ Tag_gluten \in ItemAllergens(item)
ShellfishWithSeafood(user, item) ==
    /\ Tag_shellfish \in UserAllergies(user)
    /\ (Tag_shellfish \in ItemAllergens(item) \/ SeafoodIngredients(item))
HardRuleMatches(user, item) ==
    AllergenIntersection(user, item) \/ CeliacWithGluten(user, item) \/ ShellfishWithSeafood(user, item)

\* C1: a verdict is safe only if none of the four rule predicates (missing allergen
\* info, allergen intersection, celiac with gluten, shellfish allergy with a
\* shellfish/seafood item) holds for the pair, in every classifier state and for
\* every P(unsafe).
C1_SafeOnlyIfNoRule ==
    (Returned /\ verdict.safe) =>
        /\ ~MissingAllergenInfo(arg_item)
        /\ ~HardRuleMatches(arg_user, arg_item)

\* C2: when the user's allergy set and the item's allergen set intersect, the verdict
\* is unsafe with risk_level CRITICAL, in every classifier state and for every P(unsafe).
C2_IntersectionIsCritical ==
    (Returned /\ AllergenIntersection(arg_user, arg_item)) =>
        (~verdict.safe /\ verdict.risk_level = "CRITICAL")

\* C3: a user with the celiac_disease tag and an item with gluten get an unsafe
\* verdict with risk_level CRITICAL, in fallback and model-backed state, for every
\* P(unsafe).
C3_CeliacGlutenIsCritical ==
    (Returned /\ CeliacWithGluten(arg_user, arg_item)) =>
        (~verdict.safe /\ verdict.risk_level = "CRITICAL")

\* C4: an item whose allergen information is missing (NaN, empty, blank) gets an unsafe
\* verdict with risk_level HIGH, or CRITICAL only if a hard rule also matches, in
\* every classifier state and for every P(unsafe).
C4_MissingIsHigh ==
    (Returned /\ MissingAllergenInfo(arg_item)) =>
        /\ ~verdict.safe
        /\ \/ verdict.risk_level = "HIGH"
           \/ verdict.risk_level = "CRITICAL" /\ HardRuleMatches(arg_user, arg_item)

ShellfishReasons ==
    { "ML_Predicted_Unsafe BUT_HARD_RULE_Shellfish_Allergy_Seafood_Conflict",
      "HARD_RULE_Shellfish_Allergy_Seafood_Conflict (Overrides ML Safe)" }

\* C5: a user with a shellfish allergy and an item with an empty allergen set whose
\* ingredient text contains a seafood keyword get an unsafe verdict with risk_level
\* CRITICAL and a reason citing the shellfish/seafood hard rule, in fallback state
\* and in both model-backed branches.
C5_SeafoodIngredientIsCritical ==
    (/\ Returned
     /\ Tag_shellfish \in UserAllergies(arg_user)
     /\ arg_item.allergens = EncodeTags({})
     /\ SeafoodIngredients(arg_item)) =>
        /\ ~verdict.safe
        /\ verdict.risk_level = "CRITICAL"
        /\ verdict.reason \in ShellfishReasons

FallbackExits == {"fallback_preprocess", "fallback_insufficient", "fallback_fit"}

\* C6: train never lets an exception reach its caller; every failure ends the call
\* normally with trained = false and fallback_active = true.
C6_TrainNeverRaises ==
    (op = "train" /\ tpc = "idle") =>
        /\ train_ret \in FallbackExits \cup {"completed"}
        /\ train_ret \in FallbackExits => (~trained /\ fallback_active)

\* the reasons of the rule-only branch
RuleOnlyReasons ==
    { "MISSING_ALLERGEN_INFO_FALLBACK (Critical Safety Rule)", "DIRECT_ALLERGEN_MATCH_FALLBACK",
      "CELIAC_GLUTEN_MATCH_FALLBACK (Critical Safety Rule)", "FALLBACK_NO_DIRECT_CONFLICT" }

SingleLabelOrEmpty(d) == Cardinality({is_unsafe(r[1], r[2]) : r \in FullData(d[1], d[2])}) < 2

\* C7: a train call that receives a single-label or empty example set, or whose fit
\* raises, ends with trained = false and fallback_active = true whatever the state
\* before, and until the next train every check_safety call returns a rule-derived
\* verdict without model_confidence and without encoding the input or calling the model.
C7_FailedTrainMeansRuleOnly ==
    /\ (op = "train" /\ SingleLabelOrEmpty(tdata)) => train_ret \in FallbackExits
    /\ train_ret \in FallbackExits => (~trained /\ fallback_active)
    /\ (train_ret \in FallbackExits /\ op = "check_safety") =>
            /\ verdict.kind = "return"
            /\ verdict.reason \in RuleOnlyReasons
            /\ verdict.model_confidence = None
            /\ ~verdict.encoded
            /\ ~verdict.model_called

\* C7 witness: a fitted model exists, a later train met a single-label example set,
\* and a check_safety call has returned since
C7_Witness ==
    /\ model.fitted
    /\ train_ret = "fallback_insufficient"
    /\ SingleLabelOrEmpty(tdata)
    /\ Returned

RiskLevels == {"LOW", "MEDIUM", "HIGH", "CRITICAL"}

WellFormed(v) ==
    /\ v.kind = "return"
    /\ v.safe \in BOOLEAN
    /\ v.reason # ""
    /\ v.risk_level \in RiskLevels
    /\ \/ v.model_confidence = None
       \/ \E p \in 0..100 : v.model_confidence = Some(p)

\* C8: for every structurally complete triple, seen in training or not, and in every
\* classifier state, check_safety returns a well-formed Verdict instead of raising.
C8_AlwaysAVerdict == op = "check_safety" => WellFormed(verdict)

\* C9: a check_safety call interleaved with a train call never decides on encoders
\* refitted by the train in progress together with the model of the previous training.
C9_NoTornRead ==
    (tpc = "fit" /\ op = "check_safety" /\ verdict.model_called) =>
        encoders = model.encoders_at_fit

\* C10: an unsafe verdict carries a non-empty reason; a verdict with model_confidence
\* present was produced while trained = true and fallback_active = false; a verdict of
\* the fallback path or of the in-prediction fallback path has model_confidence None.
C10_VerdictInvariant ==
    Returned =>
        /\ ~verdict.safe => verdict.reason # ""
        /\ verdict.model_confidence # None => (trained /\ ~fallback_active)
        /\ (~trained \/ fallback_active) => verdict.model_confidence = None
        /\ (ModelBacked /\ model.predicts = "raises") => verdict.model_confidence = None

\* C10 witness: an unsafe verdict that carries a model confidence
C10_Witness == Returned /\ ~verdict.safe /\ verdict.model_confidence # None

\* an input the encoding accepts: the cuisine was seen by the training that produced
\* the model and the budget range is present
ValidInput ==
    /\ arg_restaurant.cuisine_type \in model.encoders_at_fit.cuisine
    /\ ~IsNa(arg_user.budget_range_myr)

\* C11: once a train call has succeeded, for every valid input (tags seen in training
\* or not) _preprocess_single_input yields one row whose column list is the feature
\* schema captured at training time, in the same order, with zero in every schema
\* column that the input's expansion did not produce.
C11_SchemaStable ==
    (op = "check_safety" /\ ModelBacked /\ ValidInput) =>
        LET X_single == preprocess_single_input(arg_user, arg_item, arg_restaurant)
        IN  /\ X_single.kind = "row"
            /\ X_single.columns = model.feature_names
            /\ Len(X_single.values) = Len(model.feature_names)
            /\ \A i \in DOMAIN model.feature_names :
                  model.feature_names[i] \notin Range(Columns(encoders)) => X_single.values[i] = 0

\* C12: two check_safety calls with identical inputs and no train between them return
\* identical verdicts, in fallback and in model-backed state, and a check_safety call
\* leaves trained, fallback_active, the encoders and the model unchanged.
C12_Idempotent ==
    [][op' = "check_safety" =>
          /\ UNCHANGED <<trained, fallback_active, encoders, model>>
          /\ prev_verdict' # NoVerdict => verdict' = prev_verdict']_vars

\* C12 witness: a second call in model-backed state has returned the verdict of the
\* first, with its model confidence
C12_Witness ==
    /\ ModelBacked
    /\ Returned
    /\ prev_verdict = verdict
    /\ verdict.model_confidence # None

\* budget ranges and prices a caller may ask about
BudgetValues == {<<30, 55>>, <<10, 20>>}
PriceValues == {40, 60}

\* the same question with another budget range and another price
Repriced(b, p) ==
    check_safety([arg_user EXCEPT !.budget_range_myr = b], [arg_item EXCEPT !.price_myr = p],
                 arg_restaurant)

\* C13: in one classifier state, a check_safety call whose input differs from another
\* only in the user's budget range or the item's price returns the same verdict: the
\* same safe, risk_level and rule cited.
C13_BudgetPriceBlind ==
    Returned =>
        \A b \in BudgetValues, p \in PriceValues :
            /\ Repriced(b, p).kind = "return"
            /\ Repriced(b, p).safe = verdict.safe
            /\ Repriced(b, p).risk_level = verdict.risk_level
            /\ Repriced(b, p).reason = verdict.reason

\* P(unsafe) the model gives for the caller's triple
ScoredP == predict_proba(preprocess_single_input(arg_user, arg_item, arg_restaurant))

\* the model answered, and it predicts safe below both thresholds (0.5 and 0.7)
ModelSaysSafe ==
    /\ Returned
    /\ ModelBacked
    /\ verdict.model_confidence # None
    /\ predict(ScoredP) = 0
    /\ ScoredP <= 70

\* C14: in model-backed state, when the model predicts safe below both thresholds: if
\* none of the final checks (shellfish/seafood, celiac/gluten, missing allergen info)
\* fires, the verdict is safe with risk_level LOW and model_confidence 1 - P(unsafe); if
\* one fires, the verdict is unsafe at that rule's risk level (CRITICAL for the two hard
\* rules, HIGH for missing information) and model_confidence is the original P(unsafe).
C14_ModelSafeBranch ==
    ModelSaysSafe =>
        IF ShellfishWithSeafood(arg_user, arg_item) \/ CeliacWithGluten(arg_user, arg_item)
        THEN ~verdict.safe /\ verdict.risk_level = "CRITICAL" /\ verdict.model_confidence = Some(ScoredP)
        ELSE IF MissingAllergenInfo(arg_item)
        THEN ~verdict.safe /\ verdict.risk_level = "HIGH" /\ verdict.model_confidence = Some(ScoredP)
        ELSE verdict.safe /\ verdict.risk_level = "LOW" /\ verdict.model_confidence = Some(100 - ScoredP)

\* the last operation was a train call that has ended, whose cross product of users
\* and items was built and holds both labels, and whose fit did not raise
TrainedOnBothLabels ==
    /\ op = "train"
    /\ tpc = "idle"
    /\ ~budget_raises(tdata[1], tdata[2])
    /\ ~SingleLabelOrEmpty(tdata)
    /\ train_ret # "fallback_fit"

\* C15: when the training population contains both labels and the fit raises no
\* exception, train ends with trained = true and fallback_active = false, whatever the
\* evaluation metrics and whatever the state before the call.
C15_FitMeansTrained ==
    TrainedOnBothLabels => (train_ret = "completed" /\ trained /\ ~fallback_active)

\* the rule-only SafetyAgent has returned a result
RulesReturned == op = "check_safety" /\ safety_result.kind = "return"

\* C16: in the rule-only SafetyAgent, for every user and every item whose allergens
\* field is NaN or blank, check_safety returns safe = false with risk_level HIGH and a
\* reason beginning INCOMPLETE_DATA, ahead of every allergen, ingredient-keyword and
\* celiac check.
C16_IncompleteDataFirst ==
    (op = "check_safety" /\ MissingAllergenInfo(arg_item)) =>
        /\ safety_result.kind = "return"
        /\ ~safety_result.safe
        /\ safety_result.risk_level = "HIGH"
        /\ safety_result.reason.rule = "INCOMPLETE_DATA"

\* the user's '_'-separated allergies include shellfish
AllergicToShellfish(user) ==
    /\ ~IsNa(user.allergies)
    /\ \E i \in DOMAIN Split(user.allergies) : Split(user.allergies)[i] = <<"shellfish">>

\* the shellfish keywords of ALLERGEN_KEYWORDS
ShellfishKeywords == Range(KeywordsOf(<<"shellfish">>))

\* the item's allergen information is present and lists shellfish, or its ingredients
\* contain a shellfish keyword
ShellfishItem(item) ==
    /\ ~MissingAllergenInfo(item)
    /\ \/ \E i \in DOMAIN Split(item.allergens) : Split(item.allergens)[i] = <<"shellfish">>
       \/ \E k \in ShellfishKeywords : Contains(item.ingredients_clean, k)

\* the reason text contains 'shellfish'
NamesShellfish(reason) ==
    \E i \in DOMAIN reason.quoted : Contains(reason.quoted[i], <<"shellfish">>)

\* C17: in the rule-only SafetyAgent, for every user whose '_'-separated allergies
\* include shellfish, alone or with other allergies, and every item with allergen
\* information present that lists shellfish or whose ingredients contain a shellfish
\* keyword, check_safety returns safe = false with risk_level CRITICAL and a reason
\* that names shellfish.
C17_ShellfishIsCritical ==
    (op = "check_safety" /\ AllergicToShellfish(arg_user) /\ ShellfishItem(arg_item)) =>
        /\ safety_result.kind = "return"
        /\ ~safety_result.safe
        /\ safety_result.risk_level = "CRITICAL"
        /\ NamesShellfish(safety_result.reason)

\* C18: RecommendationAgent.recommend(user, top_n) returns at most top_n menu items,
\* every one with budget_min <= price_myr <= budget_max for the user's budget range
\* (bounds inclusive), in ascending price order; no item outside the budget is returned.
C18_RecommendWithinBudget ==
    (op = "recommend" /\ recommended_items.kind = "return") =>
        LET rows == recommended_items.rows
        IN  /\ Len(rows) <= top_n
            /\ \A i \in DOMAIN rows :
                  /\ rows[i] \in Range(menus)
                  /\ arg_user.budget_range_myr[1] <= rows[i].price_myr
                  /\ rows[i].price_myr <= arg_user.budget_range_myr[2]
            /\ \A i, j \in DOMAIN rows : i < j => rows[i].price_myr <= rows[j].price_myr

\* C18 witness: from a menu that also holds a dish above the budget, the call returned
\* the dish priced at budget_min followed by the dish priced at budget_max
C18_Witness ==
    /\ op = "recommend"
    /\ recommended_items.kind = "return"
    /\ \E i \in DOMAIN menus : menus[i].price_myr > arg_user.budget_range_myr[2]
    /\ Len(recommended_items.rows) = top_n
    /\ top_n >= 2
    /\ recommended_items.rows[1].price_myr = arg_user.budget_range_myr[1]
    /\ recommended_items.rows[top_n].price_myr = arg_user.budget_range_myr[2]

\* the allergen types named on a line of the text that mentions allergens
NamedOnAllergenLine(text) ==
    { get_allergen_keywords[i].type : i \in
        { j \in DOMAIN get_allergen_keywords :
            \E l \in DOMAIN text :
                /\ Contains(Lower(text[l]), <<"allergen">>)
                /\ Contains(Lower(text[l]), get_allergen_keywords[j].type) } }

\* C19: MenuOCRAgent.process_menu_text, given a text whose allergen line names an
\* allergen type (as in "Allergens: gluten."), returns a result that has a
\* found_allergens_list entry containing that type.
C19_OcrFindsNamedAllergen ==
    op = "process_menu_text" =>
        \A type \in NamedOnAllergenLine(extracted_text) :
            /\ ocr_results.kind = "return"
            /\ "found_allergens_list" \in DOMAIN ocr_results.value
            /\ type \in ocr_results.value.found_allergens_list

\* the last check_safety call consulted the model and the model raised
PredictionRaised == op = "check_safety" /\ verdict.model_called /\ model.predicts = "raises"

\* C20: if model inference raises during a check_safety call made in model-backed state,
\* the call returns the safe value and risk_level that the fallback rule sequence returns
\* for the same (user, item), without model_confidence, and leaves trained and
\* fallback_active as they were, so that the next check_safety call consults the model
\* again.
C20_PredictionErrorOneCallOnly ==
    PredictionRaised =>
        /\ verdict.kind = "return"
        /\ verdict.safe = fallback_branch(arg_user, arg_item).safe
        /\ verdict.risk_level = fallback_branch(arg_user, arg_item).risk_level
        /\ verdict.model_confidence = None
        /\ trained /\ ~fallback_active
        /\ prev_verdict # NoVerdict => prev_verdict.model_called

\* C20 witness: two calls in a row met the prediction error and both returned the
\* unsafe verdict of a rule
C20_Witness ==
    /\ PredictionRaised
    /\ ~verdict.safe
    /\ prev_verdict.kind = "return"
    /\ prev_verdict.model_called

\* the agent decides by the rules alone
FallbackState == ~trained \/ fallback_active

\* the no-conflict reason: FALLBACK_NO_CONFLICT, which the code spells with DIRECT
NoConflictReasons == {"FALLBACK_NO_CONFLICT", "FALLBACK_NO_DIRECT_CONFLICT"}

\* C21: in fallback state check_safety evaluates the rule predicates in the order
\* 1 missing allergen info, 2 direct allergen match, 3 celiac/gluten, 4 shellfish allergy
\* with a shellfish/seafood item, and returns the verdict of the first that fires (HIGH
\* for 1, CRITICAL for 2 to 4); only if none fires it returns safe = true, risk_level
\* LOW, reason FALLBACK_NO_CONFLICT, model_confidence absent.
C21_FallbackRuleOrder ==
    (Returned /\ FallbackState) =>
        IF MissingAllergenInfo(arg_item)
        THEN ~verdict.safe /\ verdict.risk_level = "HIGH" /\ verdict.model_confidence = None
        ELSE IF HardRuleMatches(arg_user, arg_item)
        THEN ~verdict.safe /\ verdict.risk_level = "CRITICAL" /\ verdict.model_confidence = None
        ELSE /\ verdict.safe
             /\ verdict.risk_level = "LOW"
             /\ verdict.reason \in NoConflictReasons
             /\ verdict.model_confidence = None

\* the last check_safety call got a probability from the model and interpreted it
ModelAnswered == Returned /\ ModelBacked /\ verdict.model_confidence # None

\* the reasons of the model-unsafe branch
UnsafeBranchReasons ==
    { "ML_Predicted_Unsafe BUT_HARD_RULE_Shellfish_Allergy_Seafood_Conflict",
      "ML_Predicted_Unsafe BUT_HARD_RULE_Celiac_Gluten_Conflict",
      "ML_Model_Predicted_Unsafe" }

\* C22: in model-backed state the unsafe branch is taken exactly when P(unsafe) >= 0.5
\* (or P(unsafe) > 0.7); in that branch the verdict is unsafe with model_confidence
\* P(unsafe), and its risk_level is CRITICAL when a hard rule (direct allergen match,
\* celiac/gluten, shellfish/seafood) fires, otherwise CRITICAL if P(unsafe) > 0.9, HIGH
\* if 0.7 < P(unsafe) <= 0.9 and MEDIUM below.
C22_UnsafeBranchThresholds ==
    ModelAnswered =>
        /\ verdict.reason \in UnsafeBranchReasons <=> (ScoredP >= 50 \/ ScoredP > 70)
        /\ verdict.reason \in UnsafeBranchReasons =>
              /\ ~verdict.safe
              /\ verdict.model_confidence = Some(ScoredP)
              /\ verdict.risk_level =
                    IF HardRuleMatches(arg_user, arg_item) THEN "CRITICAL"
                    ELSE IF ScoredP > 90 THEN "CRITICAL"
                    ELSE IF ScoredP > 70 THEN "HIGH"
                    ELSE "MEDIUM"

\* the label the labeling function is to give a (user, item) example
UnsafeExample(user, item) ==
    \/ AllergenIntersection(user, item)
    \/ CeliacWithGluten(user, item)
    \/ item.safety_status = "POTENTIAL_RISK"

\* C23: the training labeling function labels a (user, item) example unsafe (1) if and
\* only if the user's allergy set intersects the item's allergen set, or the user has
\* the celiac_disease condition and the item's allergens contain gluten, or the item's
\* safety_status is POTENTIAL_RISK; every other example is labeled safe (0).
C23_LabelingFunction ==
    op = "train" =>
        \A r \in FullData(tdata[1], tdata[2]) :
            is_unsafe(r[1], r[2]) = IF UnsafeExample(r[1], r[2]) THEN 1 ELSE 0

\* C24: whenever trained = true after any sequence of train calls (successful, failed
\* over to fallback, or aborted by an exception), the fitted encoders and the fitted
\* model's feature schema come from the same train call.
C24_EncodersAndModelOfOneTraining ==
    (tpc = "idle" /\ trained) =>
        /\ encoders = model.encoders_at_fit
        /\ model.feature_names = Columns(encoders)

\* C25: the rule layer's missing-allergen predicate used by check_safety and the
\* encoder's missing_allergen_info flag agree on every allergens value (NaN, empty
\* string, whitespace-only string, the sentinel 'none', any tag list): the rule treats
\* an item as missing allergen information exactly when the flag is true.
C25_MissingRuleMatchesFlag ==
    op = "check_safety" =>
        (allergens_missing(arg_item) <=> missing_allergen_info(arg_item) = 1)

\* the labels of a column list are pairwise distinct
Distinct(columns) == Cardinality(Range(columns)) = Len(columns)

\* C26: the feature schema built by training contains no duplicate column name: the
\* user-allergy, item-allergen and health-condition indicator columns and the five
\* fixed columns have pairwise distinct names, also when one tag occurs both as a user
\* allergy and as an item allergen.
C26_SchemaColumnsDistinct ==
    /\ Distinct(Columns(encoders))
    /\ Distinct(model.feature_names)

\* the exits of train through which the call returns to its caller
ReturningExits == FallbackExits \cup {"completed"}

NeverTrained == train_ret = "none" /\ tpc = "idle"

\* C29: on a freshly constructed SafetyAgent (trained = false, fallback_active = false,
\* train never called) every check_safety call takes the rule-only path: it returns a
\* rule-derived verdict with model_confidence None and never encodes the input or calls
\* the model.
C29_FreshAgentRuleOnly ==
    NeverTrained =>
        /\ ~trained /\ ~fallback_active
        /\ op = "check_safety" =>
              /\ verdict.kind = "return"
              /\ verdict.reason \in RuleOnlyReasons
              /\ verdict.model_confidence = None
              /\ ~verdict.encoded
              /\ ~verdict.model_called

\* C29 witness: the fresh agent was asked twice and blocked the item by the direct
\* allergen match
C29_Witness ==
    /\ NeverTrained
    /\ Returned
    /\ prev_verdict.kind = "return"
    /\ verdict.reason = "DIRECT_ALLERGEN_MATCH_FALLBACK"

\* C30: every Verdict returned by check_safety, in every classifier state, has
\* risk_level LOW if and only if safe = true, and a risk_level among MEDIUM, HIGH,
\* CRITICAL whenever safe = false; no verdict with another risk_level (such as UNKNOWN)
\* is returned on a path reachable in single-threaded use.
C30_RiskLevelMatchesSafe ==
    Returned =>
        /\ verdict.risk_level = "LOW" <=> verdict.safe
        /\ ~verdict.safe => verdict.risk_level \in {"MEDIUM", "HIGH", "CRITICAL"}
        /\ verdict.risk_level \in RiskLevels

\* C30 witness: the model alone rated the pair unsafe below the 0.7 threshold and no
\* rule fired: an unsafe verdict of risk_level MEDIUM
C30_Witness ==
    /\ Returned
    /\ ~verdict.safe
    /\ verdict.risk_level = "MEDIUM"
    /\ verdict.reason = "ML_Model_Predicted_Unsafe"

\* the row of the loaded Menu.csv a recommendation stands for
LoadedRow(rec) == menu_row(menus, rec.menu_id)

\* C27: in the app pipeline of palate_ai_ml_project (allergens NaN sanitized to 'none',
\* then the script's SafetyAgent.check_safety applied to each recommended item), a menu
\* item whose allergen information was missing in the loaded data is never placed in
\* the safe list: it is blocked with reason MISSING_ALLERGEN_INFO.
C27_MissingNeverInSafeList ==
    op = "run_all_agents" =>
        \A i \in DOMAIN recommended_items.rows :
            LET rec == recommended_items.rows[i]
            IN  MissingAllergenInfo(LoadedRow(rec)) =>
                    /\ \A k \in DOMAIN safe_list : safe_list[k].menu_id # rec.menu_id
                    /\ \E k \in DOMAIN blocked_list :
                          /\ blocked_list[k].menu_id = rec.menu_id
                          /\ blocked_list[k].reason = "MISSING_ALLERGEN_INFO"

====
